---- MODULE Spec2Model ----
(***************************************************************************)
(* Model of the miitopia bot's message handling: track resolution          *)
(* (audio_source.rs), the composition job apply_music (processor.rs) and   *)
(* the two completion loops that drive the jobs of one message,            *)
(* Handler::message (main.rs) and process_message (processor.rs).          *)
(*                                                                         *)
(* One message is handled by one task.  Its job futures are polled by      *)
(* futures::future::select_all inside that task; apply_music spawns a      *)
(* std::process child and calls the blocking std wait_with_output, so the  *)
(* task's thread stays inside the poll of one job from the spawn to the    *)
(* exit of that job's process.                                             *)
(***************************************************************************)
EXTENDS Integers, Sequences, FiniteSets, TLC

\* ------------------------------------------------------------------ bounds
MaxAttachments == 2     \* attachments per message
MaxSize == 3            \* bytes (units) of a downloaded attachment
PipeCap == 1            \* capacity of an OS pipe, in the same units
MaxBurst == 2           \* output units the process produces per input unit
MaxParts == 4           \* parts a message text is put together from
MaxTracks == 2          \* entries of a track library

\* ------------------------------------------------------- program constants
MAX_LENGTH == 10

NoType == "<none>"      \* attachment.content_type == None

\* Arms of the match on the attachment's mimetype.
StillImageTypes == {"image/png", "image/jpeg", "image/webp", "image/bmp"}

SupportedFileTypes == StillImageTypes \cup {"image/gif", "video/webm"}

\* Arm of the match on the fetched Content-Type.
SupportedAudioTypes == {"audio/mpeg", "audio/ogg", "audio/vorbis"}

\* ----------------------------------------------------------------- inputs
ContentTypes == {NoType, "image/png", "text/plain"}

Sources == {"Miitopia", "Url", "Spotify"}

\* Track libraries as scan_music builds them: durations (seconds) in
\* insertion order, none shorter than the maximum clip length.
Libraries == {<< >>, <<MAX_LENGTH, MAX_LENGTH + 1>>}

\* The message's source with the shared data of the bot.  The library is
\* read by the Miitopia source only, the Spotify client by the Spotify
\* source only.
Worlds ==
    {[source |-> "Miitopia", library |-> l, spotify |-> TRUE] : l \in Libraries}
    \cup {[source |-> "Url", library |-> <<MAX_LENGTH, MAX_LENGTH + 1>>, spotify |-> TRUE]}
    \cup {[source |-> "Spotify", library |-> <<MAX_LENGTH, MAX_LENGTH + 1>>, spotify |-> b] :
            b \in BOOLEAN}

Handlers == {"message", "process_message"}

\* Bytes of standard error: whitespace, a visible character, a byte that is
\* not valid UTF-8.
Bytes == {" ", "b", "x"}

\* Standard-error texts a process leaves: empty, blank, padded text, text
\* with a byte that is not valid UTF-8.
StderrTexts == {<< >>, <<" ">>, <<" ", "b", " ">>, <<"x", " ">>}

\* Durations (seconds) of the entries of a library: none, the maximum clip
\* length, just above it, well above it.  The threshold under which
\* scan_music leaves a file out is a constant the sources do not define, so
\* no duration is excluded.
Durations == {0, MAX_LENGTH, MAX_LENGTH + 1, MAX_LENGTH + 3}

\* Sizes of the output of a whole run of the process: none, some.
OutSizes == {0, 1}

RECURSIVE SeqsUpTo(_, _)
SeqsUpTo(S, n) ==
    IF n = 0 THEN {<< >>}
    ELSE LET shorter == SeqsUpTo(S, n - 1)
         IN  shorter \cup {Append(s, x) : s \in {t \in shorter : Len(t) = n - 1}, x \in S}

\* ---------------------------------------------------------- pure functions
Err(kind, arg) == [kind |-> kind, arg |-> arg]

\* String::from_utf8_lossy: invalid bytes become U+FFFD.
FromUtf8Lossy(bytes) == [i \in 1..Len(bytes) |-> IF bytes[i] = "x" THEN "?" ELSE bytes[i]]

\* String::from_utf8(..).ok()
ValidUtf8(bytes) == \A i \in 1..Len(bytes) : bytes[i] # "x"

RECURSIVE TrimStart(_)
TrimStart(s) == IF s # << >> /\ Head(s) = " " THEN TrimStart(Tail(s)) ELSE s

RECURSIVE TrimEnd(_)
TrimEnd(s) ==
    IF s # << >> /\ s[Len(s)] = " " THEN TrimEnd(SubSeq(s, 1, Len(s) - 1)) ELSE s

\* A trim of the leading whitespace only.
TrimLeadingOnly(s) == TrimStart(s)

\* str::trim
Trim(s) == TrimEnd(TrimStart(s))

\* A removal that also drops the futures behind the removed one.
SwapRemoveTruncating(s, k) == SubSeq(s, 1, k - 1)

\* Vec::swap_remove, used by select_all on the future that became ready.
SwapRemove(s, k) ==
    LET n == Len(s)
    IN  [i \in 1..(n - 1) |-> IF i = k THEN s[n] ELSE s[i]]

Min(a, b) == IF a < b THEN a ELSE b

\* ---------------------------------------------------- message classification
\* A message text is a sequence of tokens.  A token is one character or one
\* of the literal pieces the two patterns of from_msg_content are made of.
Https == "https://"

TrackPath == "/track/"

Tokens == {Https, "open", "spotify", "com", TrackPath, ".", "-", " ", "a"}

\* \s
Whitespace == {" "}

\* Tokens of one character: what `.` matches.
SingleChars == {".", "-", " ", "a"}

\* Tokens made of [a-zA-Z0-9] only.
Alphanumeric == {"a", "open", "spotify", "com"}

TrackUrlHead == <<Https, "open", ".", "spotify", ".", "com", TrackPath>>

\* The same address with other characters in place of the dots of the host.
LookalikeHead == <<Https, "open", "-", "spotify", "-", "com", TrackPath>>

PlainUrlHead == <<Https, "a", ".", "com">>

Parts == {TrackUrlHead, LookalikeHead, PlainUrlHead, <<"a">>, <<"-">>, <<" ">>}

RECURSIVE Concats(_)
Concats(n) ==
    IF n = 0 THEN {<< >>}
    ELSE Concats(n - 1) \cup {t \o q : t \in Concats(n - 1), q \in Parts}

\* msg.content: the texts put together from at most MaxParts parts.
Texts == Concats(MaxParts)

\* One text for each source.
SampleTexts == {<< >>, PlainUrlHead, TrackUrlHead \o <<"a">>}

\* Length of the longest run of tokens of S in t from position i on: a
\* greedy `[..]*`.
RECURSIVE Run(_, _, _)
Run(t, i, S) == IF i <= Len(t) /\ t[i] \in S THEN 1 + Run(t, i + 1, S) ELSE 0

\* r"https://open.spotify.com/track/([a-zA-Z0-9]*)" matches from position i.
SpotifyAt(t, i) ==
    /\ i + 6 <= Len(t)
    /\ t[i] = Https
    /\ t[i + 1] = "open"
    /\ t[i + 2] \in SingleChars
    /\ t[i + 3] = "spotify"
    /\ t[i + 4] \in SingleChars
    /\ t[i + 5] = "com"
    /\ t[i + 6] = TrackPath

\* r"https://[^\s]*" matches from position i.
HttpsAt(t, i) == t[i] = Https

\* spotify_re.captures: the start of the leftmost match, 0 for None.
FirstSpotify(t) ==
    IF \E i \in 1..Len(t) : SpotifyAt(t, i)
    THEN CHOOSE i \in 1..Len(t) : SpotifyAt(t, i) /\ \A k \in 1..(i - 1) : ~SpotifyAt(t, k)
    ELSE 0

\* A search that returns the rightmost match.
LastHttps(t) ==
    IF \E i \in 1..Len(t) : HttpsAt(t, i)
    THEN CHOOSE i \in 1..Len(t) : HttpsAt(t, i) /\ \A k \in (i + 1)..Len(t) : ~HttpsAt(t, k)
    ELSE 0

\* https_re.captures: the start of the leftmost match, 0 for None.
FirstHttps(t) ==
    IF \E i \in 1..Len(t) : HttpsAt(t, i)
    THEN CHOOSE i \in 1..Len(t) : HttpsAt(t, i) /\ \A k \in 1..(i - 1) : ~HttpsAt(t, k)
    ELSE 0

\* The variants of AudioSource.
Miitopia == [kind |-> "Miitopia", arg |-> << >>]

Url(url) == [kind |-> "Url", arg |-> url]

Spotify(id) == [kind |-> "Spotify", arg |-> id]

\* captures.get(1) of the match that starts at s.
SpotifyId(t, s) == SubSeq(t, s + 7, s + 6 + Run(t, s + 7, Alphanumeric))

\* captures.get(0) of the match that starts at h.
HttpsUrl(t, h) == SubSeq(t, h, h + Run(t, h + 1, Tokens \ Whitespace))

\* A classification that tries the generic pattern first.
from_msg_content_url_first(t) ==
    IF FirstHttps(t) > 0 THEN Url(HttpsUrl(t, FirstHttps(t)))
    ELSE IF FirstSpotify(t) > 0 THEN Spotify(SpotifyId(t, FirstSpotify(t)))
    ELSE Miitopia

\* A classification that takes a text without a match for a URL.
from_msg_content_url_default(t) ==
    IF FirstSpotify(t) > 0 THEN Spotify(SpotifyId(t, FirstSpotify(t)))
    ELSE IF FirstHttps(t) > 0 THEN Url(HttpsUrl(t, FirstHttps(t)))
    ELSE Url(t)

\* AudioSource::from_msg_content
from_msg_content(t) ==
    IF FirstSpotify(t) > 0 THEN Spotify(SpotifyId(t, FirstSpotify(t)))
    ELSE IF FirstHttps(t) > 0 THEN Url(HttpsUrl(t, FirstHttps(t)))
    ELSE Miitopia

\* --------------------------------------------------------- track resolution
\* Responses of the outside world to one get_track call.
FetchResponses == {"fail", "noheader", "opaque", "audio/mpeg", "text/html"}

PreviewResponses == {"fail", "badjson", "string", "null", "absent"}

\* AudioSource::get_track: the set of results of one call.  A result is
\* [tag |-> "ok", ref, start], [tag |-> "err", err] or [tag |-> "panic"].
OkTrack(ref, start) == [tag |-> "ok", ref |-> ref, start |-> start, err |-> Err("", << >>)]

ErrTrack(e) == [tag |-> "err", ref |-> "", start |-> 0, err |-> e]

PanicTrack == [tag |-> "panic", ref |-> "", start |-> 0, err |-> Err("", << >>)]

\* No call of get_track was made for the attachment.
NoTrack == [tag |-> "none", ref |-> "", start |-> 0, err |-> Err("", << >>)]

\* rng.gen_range(0..tracks.len()): the range must not be empty.
GenIndex(lib) == IF Len(lib) = 0 THEN {} ELSE 1..Len(lib)

\* The keys of the map: the path of each entry, in insertion order.
Paths == <<"1.ogg", "2.ogg", "3.ogg", "4.ogg">>

\* An offset limit that is the whole duration.
StartMaxWhole(track_duration) == track_duration

\* `track_duration - track_duration.min(MAX_LENGTH)`
StartMax(track_duration) == track_duration - Min(track_duration, MAX_LENGTH)

\* A draw from the closed range.
GenStartInclusive(start_max) == 0..start_max

\* rng.gen_range(0.0..start_max): the range is half-open.
GenStart(start_max) == 0..(start_max - 1)

\* The results for the entry the index draw picked.
EntryTrack(lib, index) ==
    IF StartMax(lib[index]) > 0
    THEN {OkTrack(Paths[index], start) : start \in GenStart(StartMax(lib[index]))}
    ELSE {OkTrack(Paths[index], 0)}

\* tracks.get_index(index) is Some for the indices of the map.
MiitopiaTrack(lib) ==
    IF GenIndex(lib) = {} THEN {PanicTrack}
    ELSE UNION {
           IF index \in 1..Len(lib)
           THEN EntryTrack(lib, index)
           ELSE {ErrTrack(Err("NoTracks", << >>))}
           : index \in GenIndex(lib)}

UrlTrack(resp) ==
    CASE resp = "fail" -> ErrTrack(Err("Reqwest", << >>))
      [] resp = "noheader" -> PanicTrack
      [] resp = "opaque" -> ErrTrack(Err("UnsupportedFileType", <<"Unknown">>))
      [] resp \in SupportedAudioTypes -> OkTrack("url", 0)
      [] OTHER -> ErrTrack(Err("UnsupportedFileType", <<resp>>))

\* A resolution that takes any preview_url value for a reference.
SpotifyTrackLenient(configured, resp) ==
    CASE ~configured -> PanicTrack
      [] resp = "fail" -> ErrTrack(Err("Spotify", <<"Reqwest">>))
      [] resp = "badjson" -> ErrTrack(Err("Reqwest", << >>))
      [] resp \in {"string", "null"} -> OkTrack("preview", 0)
      [] OTHER -> ErrTrack(Err("Spotify", <<"NotFound">>))

SpotifyTrack(configured, resp) ==
    CASE ~configured -> PanicTrack
      [] resp = "fail" -> ErrTrack(Err("Spotify", <<"Reqwest">>))
      [] resp = "badjson" -> ErrTrack(Err("Reqwest", << >>))
      [] resp = "string" -> OkTrack("preview", 0)
      [] OTHER -> ErrTrack(Err("Spotify", <<"NotFound">>))

get_track(src, lib, configured) ==
    CASE src = "Miitopia" -> MiitopiaTrack(lib)
      [] src = "Url" -> {UrlTrack(r) : r \in FetchResponses}
      [] OTHER -> {SpotifyTrack(configured, r) : r \in PreviewResponses}

\* -------------------------------------------------------------------- state
VARIABLES
    handler,        \* which entry point handles the message
    content,        \* msg.content: the text of the message
    source,         \* AudioSource of the message: the variant
    payload,        \* AudioSource of the message: the String of the variant
    library,        \* Music: the Track Library (durations, in order)
    spotify,        \* TRUE iff a Spotify client was inserted into ctx.data
    attachments,    \* msg.attachments: the content_type of each
    pc,             \* position of the handling task
    next,           \* index of the attachment the resolution loop is at
    futures,        \* the Vec of job futures, as attachment indices
    scan,           \* select_all: index being polled, 0 = task suspended
    phase,          \* per attachment: state of its job future
    track,          \* per attachment: result of get_track
    dl,             \* per attachment: attachment.download()
    child,          \* per attachment: the ffmpeg process and its pipes
    errors,         \* process_message: the errors Vec
    replies,        \* Handler::message: error replies sent to the channel
    sent,           \* files sent to the channel, in order
    finishLog,      \* history: jobs in the order their process exited
    consumeLog      \* history: the (job, result) pairs select_all returned

vars == <<handler, content, source, payload, library, spotify, attachments, pc, next, futures, scan,
          phase, track, dl, child, errors, replies, sent, finishLog, consumeLog>>

world == <<handler, content, source, payload, library, spotify, attachments>>

\* The message and the bot's data without the Track Library.
request == <<handler, content, source, payload, spotify, attachments>>

N == Len(attachments)

Jobs == 1..N

NoChild ==
    [st |-> "none", writer |-> "none", toWrite |-> 0, stdin |-> 0, stdinOpen |-> FALSE,
     pend |-> 0, stdout |-> 0, out |-> 0, code |-> "-", stderr |-> << >>]

NoDownload == "none"

\* The task has classified the text of the message and is about to resolve
\* a track for the first attachment.
Init ==
    /\ handler \in Handlers
    /\ \E w \in Worlds : source = w.source /\ library = w.library /\ spotify = w.spotify
    /\ content \in {t \in SampleTexts : from_msg_content(t).kind = source}
    /\ payload = from_msg_content(content).arg
    /\ attachments \in SeqsUpTo(ContentTypes, MaxAttachments)
    /\ pc = "resolving"
    /\ next = 1
    /\ futures = << >>
    /\ scan = 0
    /\ phase = [i \in 1..Len(attachments) |-> "pending"]
    /\ track = [i \in 1..Len(attachments) |-> NoTrack]
    /\ dl = [i \in 1..Len(attachments) |-> NoDownload]
    /\ child = [i \in 1..Len(attachments) |-> NoChild]
    /\ errors = << >>
    /\ replies = << >>
    /\ sent = << >>
    /\ finishLog = << >>
    /\ consumeLog = << >>

\* ------------------------------------------------------------ classification
NoSource == "<unset>"

\* `let source = AudioSource::from_msg_content(&msg_content);`
Classify ==
    /\ pc = "classifying"
    /\ source' = from_msg_content(content).kind
    /\ payload' = from_msg_content(content).arg
    /\ pc' = "resolving"
    /\ UNCHANGED <<handler, content, library, spotify, attachments, next, futures, scan, phase,
                   track, dl, child, errors, replies, sent, finishLog, consumeLog>>

\* ---------------------------------------------------------- resolution loop
\* A resolution that takes the first entry out of the map.
TracksAfterTake(lib) == IF lib = << >> THEN lib ELSE Tail(lib)

\* The map after get_track has read it behind `.read().await`: the guard of
\* a read lock gives shared references only.
TracksAfterRead(lib) == lib

\* The Track Library after one call of get_track; only the Miitopia arm
\* looks the map up.
LibraryAfter(src, lib) == IF src = "Miitopia" THEN TracksAfterRead(lib) ELSE lib

\* The statements after the for loop: box the futures, enter the while loop.
EnterLoop(futs) ==
    IF futs = << >> THEN pc' = "done" /\ scan' = 0
    ELSE pc' = "selecting" /\ scan' = 1

\* An iteration that spawns the job as a task of its own: the job starts its
\* download at once.
ResolveCollectEager ==
    /\ pc = "resolving" /\ handler = "process_message" /\ next <= N
    /\ \E r \in get_track(source, library, spotify) :
         /\ track' = [track EXCEPT ![next] = r]
         /\ CASE r.tag = "ok" ->
                   /\ futures' = Append(futures, next)
                   /\ phase' = [phase EXCEPT ![next] = "downloading"]
                   /\ dl' = [dl EXCEPT ![next] = "pending"]
                   /\ errors' = errors
                   /\ next' = next + 1
                   /\ pc' = pc
              [] r.tag = "err" ->
                   /\ errors' = Append(errors, r.err)
                   /\ phase' = [phase EXCEPT ![next] = "unresolved"]
                   /\ futures' = futures
                   /\ next' = next + 1
                   /\ pc' = pc
                   /\ dl' = dl
              [] OTHER ->
                   /\ pc' = "panicked"
                   /\ futures' = << >>
                   /\ phase' = [i \in Jobs |-> IF phase[i] = "created" THEN "dropped" ELSE phase[i]]
                   /\ UNCHANGED <<errors, next, dl>>
    /\ library' = LibraryAfter(source, library)
    /\ UNCHANGED <<request, scan, child, replies, sent, finishLog, consumeLog>>

\* One iteration of `for attachment in msg.attachments` in process_message.
ResolveCollect ==
    /\ pc = "resolving" /\ handler = "process_message" /\ next <= N
    /\ \E r \in get_track(source, library, spotify) :
         /\ track' = [track EXCEPT ![next] = r]
         /\ CASE r.tag = "ok" ->
                   /\ futures' = Append(futures, next)
                   /\ phase' = [phase EXCEPT ![next] = "created"]
                   /\ errors' = errors
                   /\ next' = next + 1
                   /\ pc' = pc
              [] r.tag = "err" ->
                   /\ errors' = Append(errors, r.err)
                   /\ phase' = [phase EXCEPT ![next] = "unresolved"]
                   /\ futures' = futures
                   /\ next' = next + 1
                   /\ pc' = pc
              [] OTHER ->
                   /\ pc' = "panicked"
                   /\ futures' = << >>
                   /\ phase' = [i \in Jobs |-> IF phase[i] = "created" THEN "dropped" ELSE phase[i]]
                   /\ UNCHANGED <<errors, next>>
    /\ library' = LibraryAfter(source, library)
    /\ UNCHANGED <<request, scan, dl, child, replies, sent, finishLog, consumeLog>>

\* One iteration of `for attachment in msg.attachments` in Handler::message.
ResolveOrReturn ==
    /\ pc = "resolving" /\ handler = "message" /\ next <= N
    /\ \E r \in get_track(source, library, spotify) :
         /\ track' = [track EXCEPT ![next] = r]
         /\ CASE r.tag = "ok" ->
                   /\ futures' = Append(futures, next)
                   /\ phase' = [phase EXCEPT ![next] = "created"]
                   /\ replies' = replies
                   /\ next' = next + 1
                   /\ pc' = pc
              [] r.tag = "err" ->
                   /\ replies' = Append(replies, r.err)
                   /\ pc' = "aborted"
                   /\ futures' = << >>
                   /\ phase' = [i \in Jobs |-> IF i = next THEN "unresolved"
                                               ELSE IF phase[i] = "created" THEN "dropped"
                                               ELSE phase[i]]
                   /\ next' = next
              [] OTHER ->
                   /\ pc' = "panicked"
                   /\ futures' = << >>
                   /\ phase' = [i \in Jobs |-> IF phase[i] = "created" THEN "dropped" ELSE phase[i]]
                   /\ UNCHANGED <<replies, next>>
    /\ library' = LibraryAfter(source, library)
    /\ UNCHANGED <<request, scan, dl, child, errors, sent, finishLog, consumeLog>>

\* The for loop is exhausted: `while !futures.is_empty()`.
StartSelecting ==
    /\ pc = "resolving" /\ next = N + 1
    /\ EnterLoop(futures)
    /\ UNCHANGED <<world, next, futures, phase, track, dl, child, errors, replies, sent,
                   finishLog, consumeLog>>

\* ------------------------------------------------------------- apply_music
None == [some |-> FALSE, val |-> << >>]

Some(v) == [some |-> TRUE, val |-> v]

NoFile == [job |-> 0, audio_file |-> "", stderr |-> None, output_file |-> 0]

Failure(e) == [ok |-> FALSE, err |-> e, file |-> NoFile]

Success(f) == [ok |-> TRUE, err |-> Err("", << >>), file |-> f]

\* A match whose default arm passes the attachment on as a still image.
TypeCheckLenient(content_type) ==
    IF content_type = NoType THEN Failure(Err("InvalidFileType", << >>))
    ELSE Success(NoFile)

\* The match on attachment.content_type: a success passes, a failure is the
\* error returned.
TypeCheck(content_type) ==
    CASE content_type = NoType -> Failure(Err("InvalidFileType", << >>))
      [] content_type \notin SupportedFileTypes ->
             Failure(Err("UnsupportedFileType", <<content_type>>))
      [] OTHER -> Success(NoFile)

\* The Option<String> made of the standard error of a successful run.
StderrOption(bytes) ==
    IF ~ValidUtf8(bytes) THEN None
    ELSE IF Trim(bytes) = << >> THEN None
    ELSE Some(Trim(bytes))

\* The statements after wait_with_output: the result of the job.
JobOutcome(j, audio_file, c) ==
    IF c.code # "ok"
    THEN Failure(Err("Ffmpeg", Trim(FromUtf8Lossy(c.stderr))))
    ELSE Success([job |-> j, audio_file |-> audio_file,
                  stderr |-> StderrOption(c.stderr), output_file |-> c.out])

\* A parent that writes the whole input itself before it reads any output.
DrainAfterWrite(c) == c.st # "none" /\ c.writer # "writing"

\* wait_with_output drains the child's output from the spawn on; the write
\* to its standard input runs in a thread of its own.
DrainEnabled(c) == c.st # "none"

\* ---------------------------------------------------------- completion loop
Advance(k) == IF k < Len(futures) THEN k + 1 ELSE 0

\* A loop that returns at the first failed job.
DeliverFailFast(k, res) ==
    LET j == futures[k]
        remaining == IF res.ok THEN SwapRemove(futures, k) ELSE << >>
    IN  /\ futures' = remaining
        /\ phase' = [phase EXCEPT ![j] = "finished"]
        /\ consumeLog' = Append(consumeLog, [job |-> j, res |-> res])
        /\ CASE res.ok ->
                  sent' = Append(sent, res.file) /\ UNCHANGED <<errors, replies>>
             [] ~res.ok /\ handler = "process_message" ->
                  errors' = Append(errors, res.err) /\ UNCHANGED <<sent, replies>>
             [] OTHER ->
                  replies' = Append(replies, res.err) /\ UNCHANGED <<sent, errors>>
        /\ EnterLoop(remaining)

\* select_all returns (result, index, remaining); the match arm handles the
\* result and the while condition is tested again.
Deliver(k, res) ==
    LET j == futures[k]
        remaining == SwapRemove(futures, k)
    IN  /\ futures' = remaining
        /\ phase' = [phase EXCEPT ![j] = "finished"]
        /\ consumeLog' = Append(consumeLog, [job |-> j, res |-> res])
        /\ CASE res.ok ->
                  sent' = Append(sent, res.file) /\ UNCHANGED <<errors, replies>>
             [] ~res.ok /\ handler = "process_message" ->
                  errors' = Append(errors, res.err) /\ UNCHANGED <<sent, replies>>
             [] OTHER ->
                  replies' = Append(replies, res.err) /\ UNCHANGED <<sent, errors>>
        /\ EnterLoop(remaining)

\* A return that keeps the first error only.
ReturnedFirstOnly(errs) ==
    IF Len(errs) > 0 THEN [ok |-> FALSE, errors |-> <<errs[1]>>]
    ELSE [ok |-> TRUE, errors |-> << >>]

\* `if errors.len() > 0 { Err(errors) } else { Ok(()) }`: the value
\* process_message returns when the completion loop has ended.
Returned(errs) ==
    IF Len(errs) > 0 THEN [ok |-> FALSE, errors |-> errs]
    ELSE [ok |-> TRUE, errors |-> << >>]

Polling(st) ==
    /\ pc = "selecting"
    /\ scan > 0
    /\ phase[futures[scan]] = st

\* First poll of a job: up to `attachment.download().await`.
PollValidate ==
    /\ Polling("created")
    /\ LET j == futures[scan]
           check == TypeCheck(attachments[j])
       IN  IF check.ok
           THEN /\ phase' = [phase EXCEPT ![j] = "downloading"]
                /\ dl' = [dl EXCEPT ![j] = "pending"]
                /\ scan' = Advance(scan)
                /\ UNCHANGED <<pc, futures, errors, replies, sent, consumeLog>>
           ELSE /\ Deliver(scan, check)
                /\ dl' = dl
    /\ UNCHANGED <<world, next, track, child, finishLog>>

\* A job that also suspends while its process runs.
IsPendingWhileRunning(j) ==
    \/ phase[j] = "downloading" /\ dl[j] \in {"pending", "stalled"}
    \/ phase[j] = "blocked" /\ child[j].st = "running"

\* `attachment.download().await` is the only point where a job suspends.
IsPending(j) == phase[j] = "downloading" /\ dl[j] \in {"pending", "stalled"}

\* Poll of a job whose download has not completed: Pending.
PollPending ==
    /\ pc = "selecting"
    /\ scan > 0
    /\ IsPending(futures[scan])
    /\ scan' = Advance(scan)
    /\ UNCHANGED <<world, pc, next, futures, phase, track, dl, child, errors, replies,
                   sent, finishLog, consumeLog>>

\* `attachment.download().await?` returns an error.
PollDownloadFailed ==
    /\ Polling("downloading")
    /\ dl[futures[scan]] = "err"
    /\ Deliver(scan, Failure(Err("Serenity", << >>)))
    /\ UNCHANGED <<world, next, track, dl, child, finishLog>>

\* `cmd.spawn()?` returns an error.
PollSpawnFailed ==
    /\ Polling("downloading")
    /\ dl[futures[scan]] = "ok"
    /\ Deliver(scan, Failure(Err("Io", << >>)))
    /\ UNCHANGED <<world, next, track, dl, child, finishLog>>

\* The download is complete: spawn ffmpeg, start the writer thread and enter
\* wait_with_output.  The poll does not return before the process exits.
PollSpawn ==
    /\ Polling("downloading")
    /\ LET j == futures[scan]
       IN  /\ dl[j] = "ok"
           /\ phase' = [phase EXCEPT ![j] = "blocked"]
           /\ \E size \in 0..MaxSize :
                child' = [child EXCEPT ![j] =
                    [NoChild EXCEPT !.st = "running", !.writer = "writing",
                                    !.toWrite = size, !.stdinOpen = TRUE]]
    /\ UNCHANGED <<world, pc, next, futures, scan, track, dl, errors, replies, sent,
                   finishLog, consumeLog>>

\* The Child and its Output are consumed by the job's result.
Reaped(c) == [c EXCEPT !.st = "reaped", !.out = 0, !.stderr = << >>]

\* wait_with_output returns: the process has exited and its output is read.
WaitReturns ==
    /\ Polling("blocked")
    /\ LET j == futures[scan]
       IN  /\ child[j].st = "exited"
           /\ child[j].stdout = 0
           /\ Deliver(scan, JobOutcome(j, track[j].ref, child[j]))
           /\ child' = [child EXCEPT ![j] = Reaped(@)]
    /\ UNCHANGED <<world, next, track, dl, finishLog>>

\* A task that is woken by successful downloads only.
WakeOnSuccess ==
    /\ pc = "selecting"
    /\ scan = 0
    /\ \E k \in 1..Len(futures) :
         phase[futures[k]] = "downloading" /\ dl[futures[k]] = "ok"
    /\ scan' = 1
    /\ UNCHANGED <<world, pc, next, futures, phase, track, dl, child, errors, replies,
                   sent, finishLog, consumeLog>>

\* The suspended task is woken by a completed download.
Wake ==
    /\ pc = "selecting"
    /\ scan = 0
    /\ \E k \in 1..Len(futures) :
         phase[futures[k]] = "downloading" /\ dl[futures[k]] \in {"ok", "err"}
    /\ scan' = 1
    /\ UNCHANGED <<world, pc, next, futures, phase, track, dl, child, errors, replies,
                   sent, finishLog, consumeLog>>

\* ------------------------------------------------------------- environment
jobFrame == <<world, pc, next, futures, scan, phase, track, errors, replies, sent,
              consumeLog>>

DownloadCompletes(j) ==
    /\ dl[j] = "pending"
    /\ \E r \in {"ok", "err"} : dl' = [dl EXCEPT ![j] = r]
    /\ UNCHANGED <<jobFrame, child, finishLog>>

DownloadStalls(j) ==
    /\ dl[j] = "pending"
    /\ dl' = [dl EXCEPT ![j] = "stalled"]
    /\ UNCHANGED <<jobFrame, child, finishLog>>

\* The writer thread: stdin.write_all(&source_bytes), one unit at a time.
WriterWrite(j) ==
    /\ child[j].writer = "writing"
    /\ child[j].toWrite > 0
    /\ child[j].st \in {"running", "hung"}
    /\ child[j].stdin < PipeCap
    /\ child' = [child EXCEPT ![j].toWrite = @ - 1, ![j].stdin = @ + 1]
    /\ UNCHANGED <<jobFrame, dl, finishLog>>

\* write_all returned Ok: the closure ends and drops stdin.
WriterClose(j) ==
    /\ child[j].writer = "writing"
    /\ child[j].toWrite = 0
    /\ child' = [child EXCEPT ![j].writer = "done", ![j].stdinOpen = FALSE]
    /\ UNCHANGED <<jobFrame, dl, finishLog>>

\* write_all failed (the reading end is gone): expect() panics the thread.
WriterPanic(j) ==
    /\ child[j].writer = "writing"
    /\ child[j].toWrite > 0
    /\ child[j].st \in {"exited", "reaped"}
    /\ child' = [child EXCEPT ![j].writer = "panicked", ![j].stdinOpen = FALSE,
                              ![j].toWrite = 0]
    /\ UNCHANGED <<jobFrame, dl, finishLog>>

\* The parent, inside wait_with_output, reads from the child's output pipe.
ParentDrain(j) ==
    /\ phase[j] = "blocked"
    /\ DrainEnabled(child[j])
    /\ child[j].stdout > 0
    /\ child' = [child EXCEPT ![j].stdout = @ - 1, ![j].out = @ + 1]
    /\ UNCHANGED <<jobFrame, dl, finishLog>>

\* The external process.  It reads a unit of input when it holds no unwritten
\* output, and writes its output when the pipe has room.
ProcRead(j) ==
    /\ child[j].st = "running"
    /\ child[j].pend = 0
    /\ child[j].stdin > 0
    /\ \E n \in 0..MaxBurst :
         child' = [child EXCEPT ![j].stdin = @ - 1, ![j].pend = n]
    /\ UNCHANGED <<jobFrame, dl, finishLog>>

ProcWrite(j) ==
    /\ child[j].st = "running"
    /\ child[j].pend > 0
    /\ child[j].stdout < PipeCap
    /\ child' = [child EXCEPT ![j].pend = @ - 1, ![j].stdout = @ + 1]
    /\ UNCHANGED <<jobFrame, dl, finishLog>>

Exited(c, code, text) ==
    [c EXCEPT !.st = "exited", !.code = code, !.stderr = text, !.stdin = 0, !.pend = 0]

AtEof(c) == c.pend = 0 /\ c.stdin = 0 /\ ~c.stdinOpen

\* The process has seen end-of-input and written all its output: it exits.
ProcExit(j) ==
    /\ child[j].st = "running"
    /\ AtEof(child[j])
    /\ \E code \in {"ok", "fail"}, text \in StderrTexts :
         child' = [child EXCEPT ![j] = Exited(@, code, text)]
    /\ finishLog' = Append(finishLog, j)
    /\ UNCHANGED <<jobFrame, dl>>

\* The process exits before the end of its input (an error, or the audio
\* ended: -t / -shortest).
ProcExitEarly(j) ==
    /\ child[j].st = "running"
    /\ ~AtEof(child[j])
    /\ \E code \in {"ok", "fail"}, text \in StderrTexts :
         child' = [child EXCEPT ![j] = Exited(@, code, text)]
    /\ finishLog' = Append(finishLog, j)
    /\ UNCHANGED <<jobFrame, dl>>

\* The process stops making progress and never exits.
ProcHang(j) ==
    /\ child[j].st = "running"
    /\ child' = [child EXCEPT ![j].st = "hung"]
    /\ UNCHANGED <<jobFrame, dl, finishLog>>

\* A whole run of the process, of the writer thread and of the parent's
\* reads, from the spawn to the exit: the runs of the pipe-level steps above.
ChildRuns(j) ==
    /\ child[j].st = "running"
    /\ \E code \in {"ok", "fail"}, text \in StderrTexts, n \in OutSizes :
         child' = [child EXCEPT ![j] =
             [Exited(@, code, text) EXCEPT !.out = n, !.writer = "ended", !.toWrite = 0,
                                           !.stdinOpen = FALSE]]
    /\ finishLog' = Append(finishLog, j)
    /\ UNCHANGED <<jobFrame, dl>>

\* ----------------------------------------------------------- specifications
TaskStep ==
    \/ ResolveCollect
    \/ ResolveOrReturn
    \/ StartSelecting
    \/ PollValidate
    \/ PollPending
    \/ PollDownloadFailed
    \/ PollSpawnFailed
    \/ PollSpawn
    \/ WaitReturns
    \/ Wake

\* The handling of one message, with each run of a process as one step.
Next ==
    \/ TaskStep
    \/ \E j \in Jobs : DownloadCompletes(j)
    \/ \E j \in Jobs : DownloadStalls(j)
    \/ \E j \in Jobs : ChildRuns(j)
    \/ \E j \in Jobs : ProcHang(j)

Spec == Init /\ [][Next]_vars

\* The task, the network and the processes keep running; a download may
\* stall and a process may hang, neither is forced to.
Fairness ==
    /\ WF_vars(TaskStep)
    /\ \A j \in 1..MaxAttachments : WF_vars(j \in Jobs /\ DownloadCompletes(j))
    /\ \A j \in 1..MaxAttachments : WF_vars(j \in Jobs /\ ChildRuns(j))

\* The completion loop is the same for every source; the Url source has all
\* three results of get_track.
FairInit == Init /\ source = "Url"

FairSpec == FairInit /\ [][Next]_vars /\ Fairness

\* The handling of a message of which at most one attachment passes the type
\* check, next to at most one that does not, with the pipes of its process
\* step by step.
PipeInit ==
    /\ Init
    /\ source = "Url"
    /\ Len(attachments) <= 2
    /\ Cardinality({i \in 1..Len(attachments) : attachments[i] \in SupportedFileTypes}) <= 1

PipeNext ==
    \/ TaskStep
    \/ \E j \in Jobs : DownloadCompletes(j)
    \/ \E j \in Jobs : DownloadStalls(j)
    \/ \E j \in Jobs : WriterWrite(j)
    \/ \E j \in Jobs : WriterClose(j)
    \/ \E j \in Jobs : WriterPanic(j)
    \/ \E j \in Jobs : ParentDrain(j)
    \/ \E j \in Jobs : ProcRead(j)
    \/ \E j \in Jobs : ProcWrite(j)
    \/ \E j \in Jobs : ProcExit(j)
    \/ \E j \in Jobs : ProcExitEarly(j)
    \/ \E j \in Jobs : ProcHang(j)

\* The scheduler runs the threads and the process; the process is not forced
\* to exit before the end of its input, nor to hang.
PipeFairness ==
    /\ WF_vars(TaskStep)
    /\ \A j \in 1..MaxAttachments :
         /\ WF_vars(j \in Jobs /\ DownloadCompletes(j))
         /\ WF_vars(j \in Jobs /\ (WriterWrite(j) \/ WriterClose(j) \/ WriterPanic(j)))
         /\ WF_vars(j \in Jobs /\ ParentDrain(j))
         /\ WF_vars(j \in Jobs /\ (ProcRead(j) \/ ProcWrite(j) \/ ProcExit(j)))

PipeSpec == PipeInit /\ [][PipeNext]_vars /\ PipeFairness

\* A message with any text and no attachment, before its text is classified.
ClassifyInit ==
    /\ handler \in Handlers
    /\ content \in Texts
    /\ source = NoSource
    /\ payload = << >>
    /\ library = <<MAX_LENGTH, MAX_LENGTH + 1>>
    /\ spotify = TRUE
    /\ attachments = << >>
    /\ pc = "classifying"
    /\ next = 1
    /\ futures = << >>
    /\ scan = 0
    /\ phase = << >>
    /\ track = << >>
    /\ dl = << >>
    /\ child = << >>
    /\ errors = << >>
    /\ replies = << >>
    /\ sent = << >>
    /\ finishLog = << >>
    /\ consumeLog = << >>

ClassifySpec == ClassifyInit /\ [][Classify]_vars

\* A message without URL in its text, with attachments of a supported type,
\* and any library; the task is about to resolve the first track.
TrackInit ==
    /\ handler \in Handlers
    /\ content = << >>
    /\ source = from_msg_content(content).kind
    /\ payload = from_msg_content(content).arg
    /\ library \in SeqsUpTo(Durations, MaxTracks)
    /\ spotify = TRUE
    /\ attachments \in SeqsUpTo({"image/png"}, MaxAttachments)
    /\ pc = "resolving"
    /\ next = 1
    /\ futures = << >>
    /\ scan = 0
    /\ phase = [i \in 1..Len(attachments) |-> "pending"]
    /\ track = [i \in 1..Len(attachments) |-> NoTrack]
    /\ dl = [i \in 1..Len(attachments) |-> NoDownload]
    /\ child = [i \in 1..Len(attachments) |-> NoChild]
    /\ errors = << >>
    /\ replies = << >>
    /\ sent = << >>
    /\ finishLog = << >>
    /\ consumeLog = << >>

\* The resolution loop of the two handlers.
TrackNext ==
    \/ ResolveCollect
    \/ ResolveOrReturn
    \/ StartSelecting

TrackSpec == TrackInit /\ [][TrackNext]_vars

TypeOK ==
    /\ pc \in {"classifying", "resolving", "selecting", "done", "aborted", "panicked"}
    /\ scan \in 0..Len(futures)
    /\ \A k \in 1..Len(futures) : futures[k] \in Jobs

\* ------------------------------------------------------------------ claims
ResolvedOk == {i \in Jobs : track[i].tag = "ok"}

ResolutionFailed == {i \in Jobs : track[i].tag = "err"}

Consumed == 1..Len(consumeLog)

JobFailures == {p \in Consumed : ~consumeLog[p].res.ok}

Reported == Len(errors) + Len(replies)

\* C1: when N-1 attachments of a message resolve a track and one fails to,
\* the handling ends with exactly N-1 job outcomes and exactly one
\* resolution failure reported, wherever the failing attachment is.
C1_OneResolutionFailureIsolated ==
    (/\ pc \in {"done", "aborted"}
     /\ Cardinality(ResolutionFailed) = 1
     /\ Cardinality(ResolvedOk) = N - 1)
    => /\ Len(consumeLog) = N - 1
       /\ Reported = 1 + Cardinality(JobFailures)

\* C1 seen from process_message alone, which collects the failure and goes on.
C1_HoldsInProcessMessage == handler = "process_message" => C1_OneResolutionFailureIsolated

\* C2: jobs are consumed in the order their processes finished: when the
\* process of job B exited before the process of job A, the result of A is
\* not consumed before the result of B, whatever their submission order.
C2_FinishOrder ==
    \A x, y \in 1..Len(finishLog) :
        x < y =>
            \A p \in Consumed :
                consumeLog[p].job = finishLog[y] =>
                    \E q \in 1..(p - 1) : consumeLog[q].job = finishLog[x]

\* Two jobs ran a process and the one submitted later finished, and was
\* consumed, first.
C2_Witness ==
    /\ Len(finishLog) = 2
    /\ finishLog[1] > finishLog[2]
    /\ Len(consumeLog) = 2
    /\ consumeLog[1].job = finishLog[1]
    /\ consumeLog[2].job = finishLog[2]

\* A step of the task that advances job b.
JobProgress(b) == TaskStep /\ phase'[b] # phase[b]

\* C3: no job blocks another: while a job waits for its process to exit,
\* every other job of the message whose download is complete can take its
\* next step (spawn its own process or fail).
C3_NoJobBlocksAnother ==
    \A a, b \in Jobs :
        (/\ a # b
         /\ phase[a] = "blocked"
         /\ child[a].st = "running"
         /\ phase[b] = "downloading"
         /\ dl[b] \in {"ok", "err"})
        => ENABLED JobProgress(b)

\* C5: a failed job removes only itself from the outstanding set; the loop
\* goes on with the others and ends only when none is left.
C5_FailureKeepsLoop ==
    [][(/\ Len(consumeLog') = Len(consumeLog) + 1
        /\ ~consumeLog'[Len(consumeLog')].res.ok)
       => /\ {futures'[k] : k \in 1..Len(futures')}
               = {futures[k] : k \in 1..Len(futures)} \ {consumeLog'[Len(consumeLog')].job}
          /\ Len(futures') = Len(futures) - 1
          /\ IF futures' = << >> THEN pc' = "done" ELSE pc' = "selecting" /\ scan' > 0]_vars

\* A job failed first and another job of the same message succeeded after it.
C5_Witness ==
    /\ Len(consumeLog) >= 2
    /\ ~consumeLog[1].res.ok
    /\ consumeLog[2].res.ok
    /\ Len(sent) = 1

\* C6: when the completion loop returns, no job is outstanding and every
\* launched job was consumed exactly once: successes plus job failures equal
\* the number of jobs launched.
C6_OneOutcomePerJob ==
    pc = "done" =>
        /\ futures = << >>
        /\ Len(sent) + Cardinality(JobFailures) = Cardinality(ResolvedOk)
        /\ {consumeLog[p].job : p \in Consumed} = ResolvedOk
        /\ \A p, q \in Consumed : consumeLog[p].job = consumeLog[q].job => p = q

\* The loop returned with a success and a job failure.
C6_Witness ==
    /\ pc = "done"
    /\ Len(sent) >= 1
    /\ Cardinality(JobFailures) >= 1

\* Job j has a live process.
Running(j) == j \in Jobs /\ child[j].st = "running"

\* The process of job j cannot write: it holds output and the pipe is full.
BlockedOnOutput(j) == Running(j) /\ child[j].pend > 0 /\ child[j].stdout = PipeCap

\* C4: a job does not deadlock on its pipes: a process that does not hang by
\* itself exits, a process blocked on its output while input is still to come
\* gets room to write, and the writer closes the input once all is written.
C4_NoPipeDeadlock ==
    \A j \in 1..MaxAttachments :
        /\ Running(j) ~> (j \in Jobs /\ child[j].st \in {"exited", "reaped", "hung"})
        /\ BlockedOnOutput(j)
             ~> (j \in Jobs /\ (child[j].stdout < PipeCap \/ child[j].st # "running"))
        /\ [](j \in Jobs /\ child[j].writer = "done"
                => ~child[j].stdinOpen /\ child[j].toWrite = 0)

\* The process is blocked on a full output pipe while the writer, with input
\* left to write, is blocked on a full input pipe.
C4_Witness ==
    \E j \in Jobs :
        /\ BlockedOnOutput(j)
        /\ child[j].writer = "writing"
        /\ child[j].toWrite > 0
        /\ child[j].stdin = PipeCap

NeverCompletes == \E j \in Jobs : dl[j] = "stalled" \/ child[j].st = "hung"

\* C7: once the completion loop runs, it returns unless a download or a
\* process never completes; and it never returns while a process hangs.
C7_ReturnsUnlessHung ==
    /\ (pc = "selecting") ~> (pc = "done" \/ NeverCompletes)
    /\ []((\E j \in Jobs : child[j].st = "hung") => pc # "done")

\* The loop returned after the processes of two jobs had run.
C7_Witness == pc = "done" /\ Len(finishLog) >= 2

\* C8: resolving from an empty library returns the error NoTracks: the
\* handling does not crash and no track is returned.
C8_EmptyLibraryNoTracks ==
    (source = "Miitopia" /\ library = << >>)
    => /\ pc # "panicked"
       /\ \A i \in Jobs : track[i].tag # "none" => track[i] = ErrTrack(Err("NoTracks", << >>))

Blank(n) == [i \in 1..n |-> " "]

\* m is t without its leading and trailing whitespace.
IsTrimOf(m, t) ==
    /\ m = << >> \/ (m[1] # " " /\ m[Len(m)] # " ")
    /\ \E a, b \in 0..Len(t) : t = Blank(a) \o m \o Blank(b)

LastConsumed == consumeLog[Len(consumeLog)]

\* C9: when wait_with_output returns for a process that exited with a
\* non-zero status, the job's result is the failure Ffmpeg(message), message
\* being the standard-error text without its surrounding whitespace; the
\* failure is reported and no file is sent, whatever the output was.
C9_NonZeroExitFails ==
    [][\A j \in Jobs :
          (phase[j] = "blocked" /\ phase'[j] = "finished" /\ child[j].code = "fail")
          => /\ LastConsumed'.job = j
             /\ ~LastConsumed'.res.ok
             /\ LastConsumed'.res.err.kind = "Ffmpeg"
             /\ IsTrimOf(LastConsumed'.res.err.arg, FromUtf8Lossy(child[j].stderr))
             /\ sent' = sent
             /\ Reported' = Reported + 1
             /\ \/ errors' = Append(errors, LastConsumed'.res.err)
                \/ replies' = Append(replies, LastConsumed'.res.err)]_vars

\* A process failed and its padded standard error was reported trimmed.
C9_Witness ==
    \E p \in Consumed :
        /\ child[consumeLog[p].job].code = "fail"
        /\ consumeLog[p].res.err = Err("Ffmpeg", <<"b">>)
        /\ sent = << >>

\* C10: an attachment whose type is missing or not supported is never
\* downloaded and never given a process; its job fails with InvalidFileType
\* or with UnsupportedFileType(type).
C10_TypeCheckedFirst ==
    \A j \in Jobs :
        attachments[j] \notin SupportedFileTypes =>
            /\ dl[j] = "none"
            /\ child[j].st = "none"
            /\ \A p \in Consumed :
                 consumeLog[p].job = j =>
                     consumeLog[p].res =
                         Failure(IF attachments[j] = NoType
                                 THEN Err("InvalidFileType", << >>)
                                 ELSE Err("UnsupportedFileType", <<attachments[j]>>))

\* A job failed on an unsupported type without a download, while
\* another job of the message was downloaded.
C10_Witness ==
    /\ \E p \in Consumed : consumeLog[p].res.err = Err("UnsupportedFileType", <<"text/plain">>)
    /\ \E j \in Jobs : dl[j] # "none"

\* C11: a message without attachments whose Library resolution would fail
\* (no tracks at all) still ends with that failure reported, although no job
\* ran.
C11_EmptyListSurfacesFailure ==
    (N = 0 /\ source = "Miitopia" /\ library = << >> /\ pc # "resolving")
    => Reported >= 1

\* C12: with an empty library and N >= 1 attachments, once the resolution
\* loop is left the failure has been reported exactly once and no job was
\* created for any attachment.
C12_GlobalFailureReportedOnce ==
    (N >= 1 /\ source = "Miitopia" /\ library = << >> /\ pc # "resolving")
    => /\ Reported = 1
       /\ ResolvedOk = {}
       /\ consumeLog = << >>

\* C13: a failed spawn, or a failed write to the standard input of the
\* process, makes the job fail: the result consumed for that job is a
\* failure, reported once, and the other futures stay outstanding.
C13_SpawnOrPipeFailureFailsJob ==
    [][\A j \in Jobs :
          (/\ phase'[j] = "finished"
           /\ \/ phase[j] = "downloading" /\ dl[j] = "ok"
              \/ phase[j] = "blocked" /\ child[j].writer = "panicked")
          => /\ LastConsumed'.job = j
             /\ ~LastConsumed'.res.ok
             /\ sent' = sent
             /\ Reported' = Reported + 1
             /\ Len(futures') = Len(futures) - 1]_vars

MatchesSpotify(t) == \E i \in 1..Len(t) : SpotifyAt(t, i)

MatchesHttps(t) == \E i \in 1..Len(t) : t[i] = Https

\* C14: classification is total, deterministic and free of side effects:
\* every text, the empty one included, is classified; the result is one of
\* the three variants and the same on every call; only the source is
\* written; and a text that matches neither pattern gives Miitopia (Library).
C14_ClassificationTotal ==
    /\ [](pc = "classifying" => ENABLED Classify)
    /\ [](pc # "classifying"
            => /\ source \in Sources
               /\ [kind |-> source, arg |-> payload] = from_msg_content(content)
               /\ (~MatchesSpotify(content) /\ ~MatchesHttps(content))
                    => source = "Miitopia" /\ payload = << >>)
    /\ [][pc = "classifying"
            => UNCHANGED <<handler, content, library, spotify, attachments, next, futures,
                           scan, phase, track, dl, child, errors, replies, sent, finishLog,
                           consumeLog>>]_vars

\* A text of several tokens without any URL was classified as Miitopia.
C14_Witness ==
    /\ pc = "resolving"
    /\ source = "Miitopia"
    /\ Len(content) >= 2
    /\ \E i \in 1..Len(content) : content[i] = " "

\* The literal address of a track of the streaming service starts at i.
LiteralHeadAt(t, i) == i + 6 <= Len(t) /\ SubSeq(t, i, i + 6) = TrackUrlHead

\* C15: the patterns are applied in priority order: a text that contains a
\* track URL of the streaming service is classified as Spotify
\* (StreamingPreview), also when a generic https:// URL comes earlier in the
\* text; Url (RemoteUrl) is returned only when the streaming pattern matches
\* nowhere in the text.
C15_StreamingBeforeGeneric ==
    pc # "classifying"
    => /\ (\E i \in 1..Len(content) : LiteralHeadAt(content, i)) => source = "Spotify"
       /\ source = "Url" => ~MatchesSpotify(content)

\* A text that starts with a generic URL and holds a track URL after it was
\* classified as Spotify.
C15_Witness ==
    /\ pc = "resolving"
    /\ source = "Spotify"
    /\ payload = <<"a">>
    /\ Len(content) >= 12
    /\ SubSeq(content, 1, 4) = PlainUrlHead
    /\ content[5] = " "
    /\ LiteralHeadAt(content, 6)

\* Tokens a path segment is made of.
SegmentTokens == Tokens \ (Whitespace \cup {Https, TrackPath})

\* A track URL starts at i: the literal address and a non-empty segment.
TrackUrlAt(t, i) == LiteralHeadAt(t, i) /\ Run(t, i + 7, SegmentTokens) > 0

\* C16: a text is classified as Spotify only for a URL with the literal host
\* of the streaming service, and the id is the whole path segment that
\* follows /track/ in the first track URL of the text: not empty and not cut
\* at the first character that is not alphanumeric.
C16_WholeTrackId ==
    pc # "classifying"
    => /\ source = "Spotify" => \E i \in 1..Len(content) : LiteralHeadAt(content, i)
       /\ \A i \in 1..Len(content) :
            (TrackUrlAt(content, i) /\ \A k \in 1..(i - 1) : ~TrackUrlAt(content, k))
            => /\ source = "Spotify"
               /\ payload = SubSeq(content, i + 7, i + 6 + Run(content, i + 7, SegmentTokens))

DurationOf(ref) == library[CHOOSE k \in 1..Len(library) : Paths[k] = ref]

FromLibrary == {i \in Jobs : source = "Miitopia" /\ track[i].tag = "ok"}

\* C18: a track resolved from an entry longer than MAX_LENGTH starts at an
\* offset with 0 <= start < duration - MAX_LENGTH, so the clip ends inside
\* the track; for every entry start + min(duration, MAX_LENGTH) <= duration.
C18_OffsetInsideTrack ==
    \A i \in FromLibrary :
        LET d == DurationOf(track[i].ref)
            start == track[i].start
        IN  /\ d > MAX_LENGTH
                 => 0 <= start /\ start < d - MAX_LENGTH /\ start + MAX_LENGTH <= d
            /\ start + (IF d < MAX_LENGTH THEN d ELSE MAX_LENGTH) <= d

\* A track was resolved at the largest offset of a long entry.
C18_Witness ==
    \E i \in FromLibrary :
        /\ DurationOf(track[i].ref) = MAX_LENGTH + 3
        /\ track[i].start = 2

\* C19: a track resolved from an entry not longer than MAX_LENGTH (equal to
\* it, or of duration 0) starts at offset 0, and that is the only result for
\* the entry: no offset is drawn.
C19_ShortEntryStartsAtZero ==
    /\ \A i \in FromLibrary :
         DurationOf(track[i].ref) <= MAX_LENGTH => track[i].start = 0
    /\ \A k \in 1..Len(library) :
         library[k] <= MAX_LENGTH => EntryTrack(library, k) = {OkTrack(Paths[k], 0)}

\* Tracks were resolved from an entry of duration 0 and from an entry of
\* exactly MAX_LENGTH.
C19_Witness ==
    /\ \E i \in FromLibrary : DurationOf(track[i].ref) = 0
    /\ \E i \in FromLibrary : DurationOf(track[i].ref) = MAX_LENGTH

\* C20: resolving a Url source never crashes; it succeeds, with the URL and
\* offset 0, only for a declared type of the allow-list, and fails with an
\* error value otherwise: the unsupported-type error carrying the declared
\* type, or another error for a failed fetch or a missing type.
C20_UrlAllowList ==
    source = "Url"
    => /\ pc # "panicked"
       /\ \A i \in Jobs :
            track[i].tag # "none"
            => \E r \in FetchResponses :
                 CASE r \in SupportedAudioTypes -> track[i] = OkTrack("url", 0)
                   [] r \in {"fail", "noheader", "opaque"} -> track[i].tag = "err"
                   [] OTHER -> track[i] = ErrTrack(Err("UnsupportedFileType", <<r>>))

PreviewUnavailable == ErrTrack(Err("Spotify", <<"NotFound">>))

\* C21: a Spotify (StreamingPreview) source whose track metadata has no
\* preview_url, or one that is not a string, resolves to the error Spotify
\* NotFound, and one with a string resolves to that string; every track
\* resolved from a Url or a Spotify source starts at offset 0.
C21_PreviewOrUnavailable ==
    /\ \A i \in Jobs :
         (source \in {"Url", "Spotify"} /\ track[i].tag = "ok") => track[i].start = 0
    /\ (source = "Spotify" /\ spotify)
         => /\ \A r \in {"null", "absent"} : SpotifyTrack(spotify, r) = PreviewUnavailable
            /\ SpotifyTrack(spotify, "string") = OkTrack("preview", 0)
            /\ \A i \in Jobs :
                 /\ track[i].tag = "ok" => track[i] = OkTrack("preview", 0)
                 /\ track[i].tag = "err"
                      => \/ track[i] = PreviewUnavailable
                         \/ track[i] \in {SpotifyTrack(spotify, r) : r \in {"fail", "badjson"}}

\* One attachment of a Spotify message resolved to the preview and another
\* to the error NotFound.
C21_Witness ==
    /\ source = "Spotify"
    /\ \E i \in Jobs : track[i] = OkTrack("preview", 0)
    /\ \E i \in Jobs : track[i] = PreviewUnavailable

\* The bytes hold something else than whitespace.
NonBlank(bytes) == \E k \in 1..Len(bytes) : bytes[k] # " "

\* C22: when wait_with_output returns for a process that exited with status
\* zero, the job succeeds; its output_file is the whole standard output of
\* the process and its stderr is present exactly when the standard error
\* holds more than whitespace, and is then that text trimmed.
C22_ZeroExitSucceeds ==
    [][\A j \in Jobs :
          (phase[j] = "blocked" /\ phase'[j] = "finished" /\ child[j].code = "ok")
          => /\ LastConsumed'.job = j
             /\ LastConsumed'.res.ok
             /\ LastConsumed'.res.file.output_file = child[j].out
             /\ LastConsumed'.res.file.stderr.some <=> NonBlank(child[j].stderr)
             /\ LastConsumed'.res.file.stderr.some
                  => IsTrimOf(LastConsumed'.res.file.stderr.val,
                              FromUtf8Lossy(child[j].stderr))
             /\ sent' = Append(sent, LastConsumed'.res.file)]_vars

Resolved(i) == track[i].tag # "none"

\* Job j has started to run: its download or its process exists.
Started(j) == dl[j] # "none" \/ child[j].st # "none"

\* C24: the tracks of a message are resolved one attachment at a time, in
\* attachment order, and no job starts (no download, no process) before the
\* resolution was attempted for every attachment: futures are created in the
\* resolution loop only and first polled in the completion loop.
C24_ResolveBeforeRun ==
    /\ [](\A i \in Jobs : Resolved(i) => \A k \in 1..(i - 1) : Resolved(k))
    /\ [](pc = "resolving"
            => \A j \in Jobs : ~Started(j) /\ phase[j] \in {"pending", "created", "unresolved"})
    /\ [](\A j \in Jobs : Started(j) => \A i \in Jobs : Resolved(i))
    /\ [][/\ \A i \in Jobs : (track'[i] # track[i]) => (pc = "resolving" /\ i = next)
          /\ (Len(futures') > Len(futures)) => (pc = "resolving")
          /\ \A j \in Jobs :
               (phase[j] = "created" /\ phase'[j] \notin {"created", "dropped"})
               => (pc = "selecting" /\ scan > 0 /\ futures[scan] = j)]_vars

\* Two attachments were resolved, the second after the first, and the
\* process of one of the jobs runs.
C24_Witness ==
    /\ N = 2
    /\ \A i \in Jobs : track[i].tag = "ok"
    /\ pc = "selecting"
    /\ \E j \in Jobs : child[j].st = "running"

\* The errors of the attachments whose resolution failed, in attachment order.
ResolutionErrors ==
    LET failed == SelectSeq(track, LAMBDA t : t.tag = "err")
    IN  [k \in 1..Len(failed) |-> failed[k].err]

\* The errors of the failed jobs, in the order the jobs finished.
JobErrors ==
    LET failed == SelectSeq(consumeLog, LAMBDA e : ~e.res.ok)
    IN  [k \in 1..Len(failed) |-> failed[k].res.err]

\* C25: process_message returns Err(errors) exactly when a failure was
\* collected, errors being the resolution failures in attachment order
\* followed by the job failures in finish order, and Ok(()) exactly when none
\* was, as for a message without attachments.
C25_ReturnsCollectedErrors ==
    (handler = "process_message" /\ pc = "done")
    => /\ Returned(errors) =
            IF ResolutionErrors \o JobErrors = << >>
            THEN [ok |-> TRUE, errors |-> << >>]
            ELSE [ok |-> FALSE, errors |-> ResolutionErrors \o JobErrors]
       /\ N = 0 => Returned(errors).ok

\* process_message returned a resolution failure followed by a job failure.
C25_Witness ==
    /\ handler = "process_message"
    /\ pc = "done"
    /\ Len(ResolutionErrors) = 1
    /\ Len(JobErrors) = 1
    /\ Returned(errors) = [ok |-> FALSE, errors |-> ResolutionErrors \o JobErrors]

====
